---- MODULE Spec2Model ----
(***************************************************************************)
(* Feature Discovery Agent: the persisted entities (users, features,       *)
(* user-feature interactions), the request handlers of app/main.py that    *)
(* mutate them, and the retry / fallback chain of app/services/llm.py.     *)
(*                                                                         *)
(* Python floats are modelled as exact rationals <<n, d>> in lowest terms  *)
(* (d > 0), so that 0.9*p + 0.1 and friends are computed, not rounded.     *)
(***************************************************************************)
EXTENDS Integers, Sequences, FiniteSets, TLC

VARIABLES
    users,          \* table users: row id = index
    features,       \* table features: row id = index
    interactions,   \* table user_feature_interactions: row id = index
    contexts,       \* table user_contexts: row id = index
    now,            \* the wall clock read by datetime.utcnow()
    resp,           \* the response of the last finished request
    sess,           \* per in-flight request: the ORM session of the handler
    llm             \* the state of one FeatureDiscoveryLLM operation

vars == <<users, features, interactions, contexts, now, resp, sess, llm>>

dbvars == <<users, features, interactions, contexts>>

-----------------------------------------------------------------------------
(* Bounds *)

\* every request arrives at a later clock reading; the clock stops here
MaxTime == 5

\* clock bound of the interleaved specification
MaxConcTime == 4

\* clock bound of the specification of the handlers with the model service
MaxSvcTime == 3

\* longest recommended_features list in a reply of the model
MaxItems == 2

-----------------------------------------------------------------------------
(* Exact rational arithmetic standing in for Python float *)

Abs(x) == IF x < 0 THEN -x ELSE x

RECURSIVE GCD(_, _)
GCD(a, b) == IF b = 0 THEN a ELSE GCD(b, a % b)

Rat(n, d) == LET g == GCD(Abs(n), d) IN <<n \div g, d \div g>>

RAdd(a, b) == LET g == GCD(a[2], b[2])
              IN Rat(a[1] * (b[2] \div g) + b[1] * (a[2] \div g), (a[2] \div g) * b[2])

RMul(a, b) == LET x == Rat(a[1], b[2])
                  y == Rat(b[1], a[2])
              IN Rat(x[1] * y[1], x[2] * y[2])

RLe(a, b) == LET g == GCD(a[2], b[2])
             IN a[1] * (b[2] \div g) <= b[1] * (a[2] \div g)

RLt(a, b) == ~RLe(b, a)

RMin(a, b) == IF RLe(a, b) THEN a ELSE b

Zero == Rat(0, 1)

One == Rat(1, 1)

InUnit(r) == RLe(Zero, r) /\ RLe(r, One)

RECURSIVE SumOver(_, _)
SumOver(S, f) == IF S = {} THEN 0
                 ELSE LET x == CHOOSE y \in S : TRUE
                      IN f[x] + SumOver(S \ {x}, f)

-----------------------------------------------------------------------------
(* Request inputs *)

\* scripts/seed_data.py: the first rows of its users and features lists,
\* as <<username, email>> and <<name, category>>
SeedUsers == << <<"admin_user", "admin@example.com">>,
                <<"manager_user", "manager@example.com">> >>

SeedFeatures == << <<"Task Automation", "Productivity">>,
                   <<"Kanban Board", "Project Management">> >>

\* UserCreate bodies: the same people, and one reusing a username and an email
UserInputs == {SeedUsers[1], SeedUsers[2],
               <<"admin_user", "manager@example.com">>}

\* FeatureCreate bodies: the same features, and one reusing a name
FeatureInputs == {SeedFeatures[1], SeedFeatures[2],
                  <<"Kanban Board", "Analytics">>}

\* FeedbackRequest.rating: Field(ge=1, le=5); requests outside are rejected
\* by the schema before the handler runs
Ratings == {1, 5}

FeedbackTexts == {"Very helpful!"}

\* ids a request may name: every id a row can have, plus one that never exists
UserIds == 1 .. (Len(SeedUsers) + 1)

FeatureIds == 1 .. (Len(SeedFeatures) + 1)

InteractionIds == 1 .. (Len(SeedUsers) * Len(SeedFeatures) + 1)

\* what llm_service.generate_tutorial / generate_automation hand back to the
\* handler: a dict the schema accepts, or a JSON value the handler chokes on
Payloads == {"dict", "nondict"}

\* rating column, nullable: NULL
None == 0

-----------------------------------------------------------------------------
(* Rows *)

\* what the caller gets back: the status code and, from the handlers that
\* return a row, its id (and the interaction's discovery_status)
\* the part of a ContextResponse the recommendation decides
Body(recommendations, explanation, can_automate) ==
    [recommendations |-> recommendations, explanation |-> explanation,
     can_automate |-> can_automate]

NoBody == Body(<<>>, "none", FALSE)

Resp(op, status, id, ds) ==
    [op |-> op, status |-> status, id |-> id, discovery_status |-> ds,
     body |-> NoBody]

NoResp == Resp("none", 0, 0, Zero)

\* mutant: the user lookup never comes back empty
UserExists_Unchecked(u) == TRUE

UserExists(u) == u \in 1 .. Len(users)

FeatureExists(f) == f \in 1 .. Len(features)

\* mutant: the two filter columns swapped
Matching_Swapped(u, f) ==
    {i \in 1 .. Len(interactions) :
        interactions[i].user_id = f /\ interactions[i].feature_id = u}

\* db.query(UserFeatureInteraction).filter(user_id == u, feature_id == f)
Matching(u, f) ==
    {i \in 1 .. Len(interactions) :
        interactions[i].user_id = u /\ interactions[i].feature_id = f}

\* a handler's value of tutorial_data / automation_data / recommendations
\* before the service was called
NoData == [result |-> "none", shape |-> "none"]

\* a handler's ORM session and locals between requests: nothing loaded
IdleSess == [pc |-> "idle", op |-> "none", user |-> 0, feature |-> 0,
             popularity |-> Zero, iid |-> 0, row |-> <<>>, at |-> 0,
             data |-> NoData]

\* handlers that may be in flight at once
Sessions == {1, 2}

\* self.min_request_interval = 0.5 seconds, in tenths of a second
min_request_interval == 5

\* a time span in tenths of a second, measured no further than the interval:
\* the rate limiter treats every longer span alike
Capped(t) == IF t < min_request_interval THEN t ELSE min_request_interval

\* how long an external call, or the pause between two operations, may take
Durations == {0, min_request_interval}

\* self.llm / self.client before any operation was asked for;
\* since_request is time.time() - self.last_request_time (last_request_time
\* starts at 0), since_call the time since a request last left for the
\* external model, delay the local of _exponential_backoff while the loop
\* is on its way back to the chain
LlmIdle == [pc |-> "idle", op |-> "none", retry_count |-> 0, calls |-> <<>>,
            sleeps |-> 0, delay |-> 0, result |-> "none", shape |-> "none",
            since_request |-> min_request_interval,
            since_call |-> min_request_interval]

\* the service between operations, d later: only the clock readings remain
Rested(l, d) == [LlmIdle EXCEPT !.since_request = Capped(l.since_request + d),
                                !.since_call = Capped(l.since_call + d)]

-----------------------------------------------------------------------------
(* Initial state: empty tables after Base.metadata.create_all *)

Init ==
    /\ users = <<>>
    /\ features = <<>>
    /\ interactions = <<>>
    /\ contexts = <<>>
    /\ now = 0
    /\ resp = NoResp
    /\ sess = [s \in Sessions |-> IdleSess]
    /\ llm = LlmIdle

-----------------------------------------------------------------------------
\* User(username=..., email=..., feature_discovery_score=0.0)
NewUser(username, email) ==
    [username |-> username, email |-> email, feature_discovery_score |-> Zero]

\* Feature(name=..., category=..., popularity=0.0)
NewFeature(name, category) ==
    [name |-> name, category |-> category, popularity |-> Zero]

(* POST /users/ *)

\* mutant: the username lookup left out
create_user_EmailOnly(username, email) ==
    /\ now < MaxTime
    /\ now' = now + 1
    /\ IF \E i \in 1 .. Len(users) : users[i].email = email
         THEN /\ resp' = Resp("create_user", 400, 0, Zero)
              /\ UNCHANGED dbvars
       ELSE /\ users' = Append(users, [username |-> username, email |-> email,
                                       feature_discovery_score |-> Zero])
            /\ resp' = Resp("create_user", 201, Len(users) + 1, Zero)
            /\ UNCHANGED <<features, interactions, contexts>>
    /\ UNCHANGED <<sess, llm>>

create_user(username, email) ==
    /\ now < MaxTime
    /\ now' = now + 1
    /\ IF \E i \in 1 .. Len(users) : users[i].email = email
         THEN /\ resp' = Resp("create_user", 400, 0, Zero)
              /\ UNCHANGED dbvars
       ELSE IF \E i \in 1 .. Len(users) : users[i].username = username
         THEN /\ resp' = Resp("create_user", 400, 0, Zero)
              /\ UNCHANGED dbvars
       ELSE /\ users' = Append(users, [username |-> username, email |-> email,
                                       feature_discovery_score |-> Zero])
            /\ resp' = Resp("create_user", 201, Len(users) + 1, Zero)
            /\ UNCHANGED <<features, interactions, contexts>>
    /\ UNCHANGED <<sess, llm>>

(* POST /features/ *)

create_feature(name, category) ==
    /\ now < MaxTime
    /\ now' = now + 1
    /\ IF \E i \in 1 .. Len(features) : features[i].name = name
         THEN /\ resp' = Resp("create_feature", 400, 0, Zero)
              /\ UNCHANGED dbvars
       ELSE /\ features' = Append(features, NewFeature(name, category))
            /\ resp' = Resp("create_feature", 201, Len(features) + 1, Zero)
            /\ UNCHANGED <<users, interactions, contexts>>
    /\ UNCHANGED <<sess, llm>>

(* scripts/seed_data.py, seed_database(force_user_seed=False) *)

seed_database ==
    /\ now < MaxTime
    /\ now' = now + 1
    /\ features' = IF Len(features) = 0
                     THEN [i \in 1 .. Len(SeedFeatures) |->
                             NewFeature(SeedFeatures[i][1], SeedFeatures[i][2])]
                   ELSE features
    /\ users' = IF Len(users) = 0
                  THEN [i \in 1 .. Len(SeedUsers) |->
                          NewUser(SeedUsers[i][1], SeedUsers[i][2])]
                ELSE users
    /\ resp' = Resp("seed", 0, 0, Zero)
    /\ UNCHANGED <<interactions, contexts, sess, llm>>

-----------------------------------------------------------------------------
(* Interaction Scorer: the formulas of the tutorial / automation handlers *)

\* mutant: the increment written 1 for 0.1
TutorialPopularity_NoDecimal(p) == RAdd(RMul(p, Rat(9, 10)), One)

\* feature.popularity = (feature.popularity * 0.9) + 0.1
TutorialPopularity(p) == RAdd(RMul(p, Rat(9, 10)), Rat(1, 10))

\* mutant: the tutorial handler's weights pasted into the automation handler
AutomationPopularity_Pasted(p) == RAdd(RMul(p, Rat(9, 10)), Rat(1, 10))

\* feature.popularity = (feature.popularity * 0.8) + 0.2
AutomationPopularity(p) == RAdd(RMul(p, Rat(8, 10)), Rat(2, 10))

\* mutant: the tutorial step written 0.1 for 0.2
TutorialStatus_Tenth(ds) == RMin(RAdd(ds, Rat(1, 10)), One)

\* min(interaction.discovery_status + 0.2, 1.0)
TutorialStatus(ds) == RMin(RAdd(ds, Rat(2, 10)), One)

\* mutant: the clamp forgotten
AutomationStatus_NoClamp(ds) == RAdd(ds, Rat(3, 10))

\* min(interaction.discovery_status + 0.3, 1.0)
AutomationStatus(ds) == RMin(RAdd(ds, Rat(3, 10)), One)

\* mutant: the other initial value, 0.2
NewTutorialInteraction_Point2(u, f, t) ==
    [user_id |-> u, feature_id |-> f, discovery_status |-> Rat(2, 10),
     tutorial_views |-> 1, automation_uses |-> 0, rating |-> None,
     feedback |-> "None", last_interaction |-> t]

\* UserFeatureInteraction(... discovery_status=0.3, tutorial_views=1, ...)
NewTutorialInteraction(u, f, t) ==
    [user_id |-> u, feature_id |-> f, discovery_status |-> Rat(3, 10),
     tutorial_views |-> 1, automation_uses |-> 0, rating |-> None,
     feedback |-> "None", last_interaction |-> t]

\* UserFeatureInteraction(... discovery_status=0.5, automation_uses=1, ...)
NewAutomationInteraction(u, f, t) ==
    [user_id |-> u, feature_id |-> f, discovery_status |-> Rat(5, 10),
     tutorial_views |-> 0, automation_uses |-> 1, rating |-> None,
     feedback |-> "None", last_interaction |-> t]

\* mutant: the update also wipes the row's rating
ViewedTutorial_Unrated(row, t) ==
    [row EXCEPT !.tutorial_views = @ + 1,
                !.last_interaction = t,
                !.discovery_status = TutorialStatus(@),
                !.rating = None]

\* the "if interaction:" branch of get_tutorial
ViewedTutorial(row, t) ==
    [row EXCEPT !.tutorial_views = @ + 1,
                !.last_interaction = t,
                !.discovery_status = TutorialStatus(@)]

\* the "if interaction:" branch of automate_feature
UsedAutomation(row, t) ==
    [row EXCEPT !.automation_uses = @ + 1,
                !.last_interaction = t,
                !.discovery_status = AutomationStatus(@)]

-----------------------------------------------------------------------------
(* POST /features/{feature_id}/tutorial, run to completion *)

get_tutorial(u, f, data) ==
    /\ now < MaxTime
    /\ now' = now + 1
    /\ IF ~UserExists(u) \/ ~FeatureExists(f)
         THEN /\ resp' = Resp("tutorial", 404, 0, Zero)
              /\ UNCHANGED dbvars
       ELSE IF data # "dict"
         \* tutorial_data.get(...) / Tutorial(...) raises: rollback, 500
         THEN /\ resp' = Resp("tutorial", 500, 0, Zero)
              /\ UNCHANGED dbvars
       ELSE /\ \/ /\ Matching(u, f) = {}
                  /\ interactions' = Append(interactions, NewTutorialInteraction(u, f, now'))
                  /\ resp' = Resp("tutorial", 200, Len(interactions) + 1, Rat(3, 10))
               \/ \E i \in Matching(u, f) :    \* .first(), no ORDER BY
                    /\ interactions' = [interactions EXCEPT ![i] = ViewedTutorial(@, now')]
                    /\ resp' = Resp("tutorial", 200, i, interactions'[i].discovery_status)
            /\ features' = [features EXCEPT ![f].popularity = TutorialPopularity(@)]
            /\ UNCHANGED <<users, contexts>>
    /\ UNCHANGED <<sess, llm>>

(* POST /features/{feature_id}/automate, run to completion *)

automate_feature(u, f, data) ==
    /\ now < MaxTime
    /\ now' = now + 1
    /\ IF ~UserExists(u) \/ ~FeatureExists(f)
         THEN /\ resp' = Resp("automate", 404, 0, Zero)
              /\ UNCHANGED dbvars
       ELSE IF data # "dict"
         THEN /\ resp' = Resp("automate", 500, 0, Zero)
              /\ UNCHANGED dbvars
       ELSE /\ \/ /\ Matching(u, f) = {}
                  /\ interactions' = Append(interactions, NewAutomationInteraction(u, f, now'))
                  /\ resp' = Resp("automate", 200, Len(interactions) + 1, Rat(5, 10))
               \/ \E i \in Matching(u, f) :
                    /\ interactions' = [interactions EXCEPT ![i] = UsedAutomation(@, now')]
                    /\ resp' = Resp("automate", 200, i, interactions'[i].discovery_status)
            /\ features' = [features EXCEPT ![f].popularity = AutomationPopularity(@)]
            /\ UNCHANGED <<users, contexts>>
    /\ UNCHANGED <<sess, llm>>

-----------------------------------------------------------------------------
(* POST /feedback *)

\* SessionLocal = sessionmaker(autocommit=False, autoflush=False, ...):
\* a query does not flush the session's pending changes first
autoflush == FALSE

\* db.query(UserFeatureInteraction).filter(user_id == u, rating.isnot(None)):
\* the WHERE clause is evaluated by the database on the stored rows; the
\* pending rating of row `dirty` is seen by it only if the session flushed
rated_interactions(u, dirty) ==
    {i \in 1 .. Len(interactions) :
        /\ interactions[i].user_id = u
        /\ \/ interactions[i].rating # None
           \/ (autoflush /\ i = dirty)}

\* avg_rating = sum(i.rating for i in rated_interactions) / len(...); the
\* rows come back as the session's objects, so the rated row already
\* carries the new rating
avg_rating(rated, dirty, rating) ==
    Rat(SumOver(rated, [i \in rated |->
                          IF i = dirty THEN rating ELSE interactions[i].rating]),
        Cardinality(rated))

\* mutant: the rating weight written 3 for 0.3
BlendScore_NoDecimal(score, avg) == RAdd(RMul(score, Rat(7, 10)), RMul(avg, Rat(3, 1)))

\* (user.feature_discovery_score * 0.7) + (avg_rating * 0.3)
BlendScore(score, avg) == RAdd(RMul(score, Rat(7, 10)), RMul(avg, Rat(3, 10)))

\* mutant: a missing interaction answered as if the feedback was recorded
provide_feedback_Swallowed(iid, rating, text) ==
    /\ now < MaxTime
    /\ now' = now + 1
    /\ IF iid \notin 1 .. Len(interactions)
         THEN /\ resp' = Resp("feedback", 200, iid, Zero)
              /\ UNCHANGED dbvars
       ELSE LET u == interactions[iid].user_id
                rated == rated_interactions(u, iid)
            IN /\ interactions' = [interactions EXCEPT ![iid].rating = rating,
                                                       ![iid].feedback = text]
               /\ users' = IF rated # {}
                             THEN [users EXCEPT ![u].feature_discovery_score =
                                       BlendScore(@, avg_rating(rated, iid, rating))]
                           ELSE users
               /\ resp' = Resp("feedback", 200, iid, Zero)
               /\ UNCHANGED <<features, contexts>>
    /\ UNCHANGED <<sess, llm>>

provide_feedback(iid, rating, text) ==
    /\ now < MaxTime
    /\ now' = now + 1
    /\ IF iid \notin 1 .. Len(interactions)
         THEN /\ resp' = Resp("feedback", 404, 0, Zero)
              /\ UNCHANGED dbvars
       ELSE LET u == interactions[iid].user_id
                rated == rated_interactions(u, iid)
            IN /\ interactions' = [interactions EXCEPT ![iid].rating = rating,
                                                       ![iid].feedback = text]
               /\ users' = IF rated # {}
                             THEN [users EXCEPT ![u].feature_discovery_score =
                                       BlendScore(@, avg_rating(rated, iid, rating))]
                           ELSE users
               /\ resp' = Resp("feedback", 200, iid, Zero)
               /\ UNCHANGED <<features, contexts>>
    /\ UNCHANGED <<sess, llm>>

-----------------------------------------------------------------------------
(* The tutorial / automation handlers as their reads and their commit,   *)
(* so that two requests can interleave; the storage layer adds no locks. *)

\* lines 324-331 / 404-411: load the user and the feature row
begin_request(s, op, u, f) ==
    /\ sess[s].pc = "idle"
    /\ now < MaxConcTime
    /\ IF ~UserExists(u) \/ ~FeatureExists(f)
         THEN /\ resp' = Resp(op, 404, 0, Zero)
              /\ UNCHANGED sess
       ELSE /\ sess' = [sess EXCEPT ![s] = [IdleSess EXCEPT
                            !.pc = "loaded", !.op = op, !.user = u, !.feature = f,
                            !.popularity = features[f].popularity]]
            /\ UNCHANGED resp
    /\ UNCHANGED <<dbvars, now, llm>>

\* lines 333-377 / 413-452: the model call returns, the interaction row is
\* looked up and the changes are made on the session's objects
record_interaction(s, data) ==
    /\ sess[s].pc = "loaded"
    /\ now < MaxConcTime
    /\ now' = now + 1
    /\ IF data # "dict"
         THEN /\ resp' = Resp(sess[s].op, 500, 0, Zero)
              /\ sess' = [sess EXCEPT ![s] = IdleSess]
       ELSE /\ \/ /\ Matching(sess[s].user, sess[s].feature) = {}
                  /\ sess' = [sess EXCEPT ![s].pc = "dirty", ![s].iid = 0, ![s].at = now']
               \/ \E i \in Matching(sess[s].user, sess[s].feature) :
                    sess' = [sess EXCEPT ![s].pc = "dirty", ![s].iid = i,
                                         ![s].row = interactions[i], ![s].at = now']
            /\ UNCHANGED resp
    /\ UNCHANGED <<dbvars, llm>>

\* lines 379-383 / 454-458: db.commit() writes the session's pending changes:
\* INSERT of the new row or UPDATE of the changed columns of the loaded row,
\* and UPDATE features SET popularity
commit(s) ==
    /\ sess[s].pc = "dirty"
    /\ LET u == sess[s].user
           f == sess[s].feature
           t == sess[s].at
           tut == sess[s].op = "tutorial"
           i == sess[s].iid
           new == IF tut THEN NewTutorialInteraction(u, f, t)
                  ELSE NewAutomationInteraction(u, f, t)
           upd == IF tut THEN ViewedTutorial(sess[s].row, t)
                  ELSE UsedAutomation(sess[s].row, t)
       IN /\ interactions' =
                IF i = 0 THEN Append(interactions, new)
                ELSE [interactions EXCEPT
                        ![i].tutorial_views = upd.tutorial_views,
                        ![i].automation_uses = upd.automation_uses,
                        ![i].last_interaction = upd.last_interaction,
                        ![i].discovery_status = upd.discovery_status]
          /\ features' = [features EXCEPT ![f].popularity =
                            IF tut THEN TutorialPopularity(sess[s].popularity)
                            ELSE AutomationPopularity(sess[s].popularity)]
          /\ resp' = LET id == IF i = 0 THEN Len(interactions) + 1 ELSE i
                     IN Resp(sess[s].op, 200, id, interactions'[id].discovery_status)
    /\ sess' = [sess EXCEPT ![s] = IdleSess]
    /\ UNCHANGED <<users, contexts, now, llm>>

NextConc ==
    \/ seed_database
    \/ \E s \in Sessions, op \in {"tutorial", "automate"}, u \in UserIds, f \in FeatureIds :
          begin_request(s, op, u, f)
    \/ \E s \in Sessions, d \in Payloads : record_interaction(s, d)
    \/ \E s \in Sessions : commit(s)

SpecConc == Init /\ [][NextConc]_vars

-----------------------------------------------------------------------------
(* FeatureDiscoveryLLM: recommend_features, generate_tutorial and           *)
(* generate_automation share one retry / fallback structure.                 *)

LlmOps == {"recommend", "tutorial", "automation"}

\* how one invocation of the LCEL chain can end: a JSON object; a transport
\* error; text the JSON parser rejects; JSON that is no object (the
\* validation's item assignment raises TypeError)
PrimaryOutcomes == {"dict", "error", "nonjson", "nondict"}

\* how the direct client call can end: JSON text (an object or not), a
\* transport error, a completion without choices / content, unparsable text
DirectOutcomes == {"dict", "nondict", "error", "invalid", "nonjson"}

\* max_retries = 3
max_retries == 3

Calls(kind) == {k \in 1 .. Len(llm.calls) : llm.calls[k][1] = kind}

\* recommend_features / generate_tutorial / generate_automation is called,
\* d after the operation before it ended
llm_invoke(op, available, d) ==
    /\ llm.pc = "idle"
    /\ llm' = IF op = "recommend" /\ ~available
                \* if not available_features: return the fixed answer
                THEN [Rested(llm, d) EXCEPT !.pc = "returned", !.op = op,
                                            !.result = "empty", !.shape = "dict"]
              ELSE [Rested(llm, d) EXCEPT !.pc = "primary", !.op = op]
    /\ UNCHANGED <<dbvars, now, resp, sess>>

\* mutant: the comparison turned round
after_failure_Inverted(retry_count) ==
    IF retry_count >= max_retries THEN "backoff" ELSE "fallback"

\* except Exception: retry_count += 1; if retry_count < max_retries: backoff
\* else: return self._fallback_...(...)
after_failure(retry_count) ==
    IF retry_count < max_retries THEN "backoff" ELSE "fallback"

\* _rate_limited_llm: if time_since_last_request < self.min_request_interval:
\* time.sleep(self.min_request_interval - time_since_last_request)
sleep_time(time_since_last_request) ==
    IF time_since_last_request < min_request_interval
      THEN min_request_interval - time_since_last_request
    ELSE 0

\* one pass of "while retry_count < max_retries: try: chain.invoke(...)":
\* the rate limiter sleeps, sets last_request_time and sends the request,
\* which takes d; a call is logged with the time since the request before it
primary_attempt(outcome, d) ==
    /\ llm.pc = "primary"
    /\ llm.retry_count < max_retries
    /\ LET gap == Capped(llm.since_call + sleep_time(llm.since_request))
           sent == [llm EXCEPT !.calls = Append(@, <<"primary", outcome, gap>>),
                               !.delay = 0,
                               !.since_request = Capped(d),
                               !.since_call = Capped(d)]
       IN llm' = IF outcome = "dict"
                   THEN [sent EXCEPT !.pc = "returned", !.result = "primary",
                                     !.shape = "dict"]
                 ELSE [sent EXCEPT !.retry_count = @ + 1,
                                   !.pc = after_failure(llm.retry_count + 1)]
    /\ UNCHANGED <<dbvars, now, resp, sess>>

\* base_delay=1 and max_delay=60 seconds, in tenths of a second
base_delay == 10

max_delay == 600

\* the longest jitter, random.uniform(0, 1) seconds, in tenths of a second
MaxJitter == 10

\* min(base_delay * (2 ** retry_count) + random.uniform(0, 1), max_delay)
Delay(retry_count, jitter) ==
    LET d == base_delay * (2 ^ retry_count) + jitter
    IN IF d < max_delay THEN d ELSE max_delay

\* self._exponential_backoff(retry_count): time.sleep(delay), then loop
exponential_backoff ==
    /\ llm.pc = "backoff"
    /\ \E jitter \in {0, MaxJitter} :
          llm' = [llm EXCEPT
                    !.sleeps = @ + 1, !.pc = "primary",
                    !.delay = Delay(llm.retry_count, jitter),
                    !.since_request = Capped(@ + Delay(llm.retry_count, jitter)),
                    !.since_call = Capped(@ + Delay(llm.retry_count, jitter))]
    /\ UNCHANGED <<dbvars, now, resp, sess>>

\* _fallback_recommendation / _fallback_tutorial / _fallback_automation:
\* self.client.chat.completions.create(...) straight away, not through
\* _rate_limited_llm and leaving last_request_time alone; json.loads; on any
\* exception the hard-coded last-resort answer
direct_call(outcome, d) ==
    /\ llm.pc = "fallback"
    /\ LET sent == [llm EXCEPT !.calls = Append(@, <<"direct", outcome, llm.since_call>>),
                               !.since_request = Capped(@ + d),
                               !.since_call = Capped(d)]
       IN llm' = IF outcome \in {"dict", "nondict"}
                   THEN [sent EXCEPT !.pc = "returned", !.result = "direct",
                                     !.shape = outcome]
                 ELSE [sent EXCEPT !.pc = "returned", !.result = "lastresort",
                                   !.shape = "dict"]
    /\ UNCHANGED <<dbvars, now, resp, sess>>

\* the caller takes the result; the service is free for the next operation
llm_done ==
    /\ llm.pc = "returned"
    /\ llm' = Rested(llm, 0)
    /\ UNCHANGED <<dbvars, now, resp, sess>>

LlmStep ==
    \/ \E o \in PrimaryOutcomes, d \in Durations : primary_attempt(o, d)
    \/ exponential_backoff
    \/ \E o \in DirectOutcomes, d \in Durations : direct_call(o, d)

NextLLM ==
    \/ \E op \in LlmOps, av \in BOOLEAN, d \in Durations : llm_invoke(op, av, d)
    \/ LlmStep
    \/ llm_done

\* every external call returns or fails and every sleep ends
SpecLLM == Init /\ [][NextLLM]_vars /\ WF_vars(LlmStep)

-----------------------------------------------------------------------------
(* POST /context/analyze, and the handlers together with the model service *)

\* the handlers are "async def" without an await: the event loop runs one
\* request at a time, in one session
Worker == CHOOSE s \in Sessions : TRUE

TopKeys == {"recommended_features", "explanation", "automation_possible"}

\* class RecommendedFeature: id, name, reason, nudge
RequiredFields == {"id", "name", "reason", "nudge"}

\* an item of recommended_features as the model may write it: with all four
\* fields, with one missing, or with all four but a value the schema rejects
ItemShapes == {[has |-> RequiredFields, typed |-> TRUE],
               [has |-> RequiredFields \ {"nudge"}, typed |-> TRUE],
               [has |-> RequiredFields, typed |-> FALSE]}

ItemLists ==
    UNION {{[k \in 1 .. n |-> [id |-> k, has |-> f[k].has, typed |-> f[k].typed]] :
              f \in [1 .. n -> ItemShapes]} : n \in 0 .. MaxItems}

\* the JSON objects the model may reply with: any of the top-level keys
\* may be missing
Replies ==
    {[keys |-> K, recommended_features |-> items, explanation |-> "model",
      automation_possible |-> TRUE] : K \in SUBSET TopKeys, items \in ItemLists}

\* dict.get(key, default)
Get(d, key, default) == IF key \in d.keys THEN d[key] ELSE default

\* recommend_features, "Validate response structure": a missing key is set
\* to its default on the response of the chain
validated(response) ==
    [keys |-> TopKeys,
     recommended_features |-> Get(response, "recommended_features", <<>>),
     explanation |-> Get(response, "explanation",
                         "Features recommended based on your context."),
     automation_possible |-> Get(response, "automation_possible", FALSE)]

\* _fallback_recommendation, "Last resort fallback": one item built from
\* available_features[0]
fallback_response ==
    [keys |-> TopKeys,
     recommended_features |-> <<[id |-> 1, has |-> RequiredFields, typed |-> TRUE]>>,
     explanation |-> "Recommendations based on your current context and role",
     automation_possible |-> FALSE]

\* what recommend_features returned, by the path it returned on, when the
\* model's JSON object was `reply`
recommendations(result, reply) ==
    IF result = "primary" THEN validated(reply)
    ELSE IF result = "direct" THEN reply
    ELSE fallback_response

\* rec["id"], rec["name"], rec["reason"], rec["nudge"] raise no KeyError
Complete(rec) == RequiredFields \subseteq rec.has

\* the loop of analyze_context over recommended_features: an item that
\* raises KeyError / TypeError is skipped, the others are appended in turn
recommended_features(items) ==
    LET kept == SelectSeq(items, Complete)
    IN [k \in 1 .. Len(kept) |-> kept[k].id]

\* RecommendedFeature(...) raises pydantic's ValidationError, a ValueError,
\* which "except (KeyError, TypeError)" lets through
Rejected(items) == \E k \in 1 .. Len(items) : Complete(items[k]) /\ ~items[k].typed

\* interactions of the user with discovery_status > 0
discovered_feature_ids(u) ==
    {interactions[i].feature_id :
        i \in {j \in 1 .. Len(interactions) :
                 /\ interactions[j].user_id = u
                 /\ RLt(Zero, interactions[j].discovery_status)}}

\* [... for feature in all_features if feature.id not in discovered_feature_ids]
available_features(u) == {f \in 1 .. Len(features) : f \notin discovered_feature_ids(u)}

\* UserContext(user_id=user.id, ..., timestamp=datetime.datetime.utcnow())
NewContext(u, t) == [user_id |-> u, timestamp |-> t]

\* mutant: the flag of the answer left on
AllDiscovered_CanAutomate ==
    Body(<<>>, "You have already discovered all available features!", TRUE)

\* the answer of analyze_context when nothing is left to recommend
AllDiscovered ==
    Body(<<>>, "You have already discovered all available features!", FALSE)

\* analyze_context up to the call of llm_service.recommend_features: the
\* user is validated, the UserContext is added and committed, and the
\* request is answered at once if no feature is available
analyze_context(s, u) ==
    /\ sess[s].pc = "idle"
    /\ now < MaxSvcTime
    /\ now' = now + 1
    /\ IF ~UserExists(u)
         THEN /\ resp' = Resp("analyze", 404, 0, Zero)
              /\ UNCHANGED <<contexts, sess>>
       ELSE /\ contexts' = Append(contexts, NewContext(u, now'))
            /\ IF available_features(u) = {}
                 THEN /\ resp' = [Resp("analyze", 200, Len(contexts) + 1, Zero)
                                    EXCEPT !.body = AllDiscovered]
                      /\ UNCHANGED sess
               ELSE /\ sess' = [sess EXCEPT ![s] = [IdleSess EXCEPT
                                    !.pc = "loaded", !.op = "analyze", !.user = u,
                                    !.iid = Len(contexts) + 1]]
                    /\ UNCHANGED resp
    /\ UNCHANGED <<users, features, interactions, llm>>

\* analyze_context from "Convert recommendations to proper schema" on;
\* reply is the JSON object the model sent, if it sent one
convert_recommendations(s, reply) ==
    /\ sess[s].pc = "loaded"
    /\ sess[s].op = "analyze"
    /\ sess[s].data # NoData
    /\ LET recs == recommendations(sess[s].data.result, reply)
           items == Get(recs, "recommended_features", <<>>)
       IN IF sess[s].data.shape # "dict" \/ Rejected(items)
            \* .get on a JSON value that is no object, or ValidationError:
            \* except Exception: db.rollback(); 500
            THEN resp' = Resp("analyze", 500, 0, Zero)
          ELSE resp' = [Resp("analyze", 200, sess[s].iid, Zero) EXCEPT !.body =
                          Body(recommended_features(items),
                               Get(recs, "explanation",
                                   "Features recommended based on your context"),
                               Get(recs, "automation_possible", FALSE))]
    /\ sess' = [sess EXCEPT ![s] = IdleSess]
    /\ UNCHANGED <<dbvars, now, llm>>

\* the service method returns to the handler that called it
llm_return(s) ==
    /\ sess[s].pc = "loaded"
    /\ llm.pc = "returned"
    /\ sess' = [sess EXCEPT ![s].data = [result |-> llm.result, shape |-> llm.shape]]
    /\ llm' = Rested(llm, 0)
    /\ UNCHANGED <<dbvars, now, resp>>

\* the service method a handler in flight calls
ServiceOp(op) == IF op = "analyze" THEN "recommend"
                 ELSE IF op = "tutorial" THEN "tutorial"
                 ELSE "automation"

\* the steps of the service as a handler sees them: the chain's answer or
\* its failure (which kind of failure makes no difference to the retry
\* loop), the direct call's JSON value or its failure; every call takes
\* the interval or longer
SvcLlmStep ==
    \/ \E o \in {"dict", "error"} : primary_attempt(o, min_request_interval)
    \/ exponential_backoff
    \/ \E o \in {"dict", "nondict", "error"} : direct_call(o, min_request_interval)

\* no request in flight
Quiet == sess[Worker].pc = "idle" /\ llm.pc = "idle"

NextSvc ==
    \/ Quiet /\ now < MaxSvcTime /\ seed_database
    \/ Quiet /\ now < MaxSvcTime /\ \E b \in UserInputs : create_user(b[1], b[2])
    \/ Quiet /\ now < MaxSvcTime /\ \E b \in FeatureInputs : create_feature(b[1], b[2])
    \/ Quiet /\ now < MaxSvcTime /\
         \E i \in InteractionIds, r \in Ratings, t \in FeedbackTexts : provide_feedback(i, r, t)
    \/ Quiet /\ \E u \in UserIds : analyze_context(Worker, u)
    \/ Quiet /\ now < MaxSvcTime /\
         \E op \in {"tutorial", "automate"}, u \in UserIds, f \in FeatureIds :
            begin_request(Worker, op, u, f)
    \/ sess[Worker].pc = "loaded" /\ sess[Worker].data = NoData /\
         llm_invoke(ServiceOp(sess[Worker].op), TRUE, min_request_interval)
    \/ SvcLlmStep
    \/ llm_return(Worker)
    \/ \E reply \in Replies : convert_recommendations(Worker, reply)
    \/ sess[Worker].data # NoData /\ sess[Worker].op # "analyze" /\
         record_interaction(Worker, sess[Worker].data.shape)
    \/ commit(Worker)

\* every external call returns or fails and every sleep ends
SpecSvc == Init /\ [][NextSvc]_vars /\ WF_vars(SvcLlmStep)

-----------------------------------------------------------------------------
(* Requests served one at a time *)

Next ==
    \/ seed_database
    \/ \E b \in UserInputs : create_user(b[1], b[2])
    \/ \E b \in FeatureInputs : create_feature(b[1], b[2])
    \/ \E u \in UserIds, f \in FeatureIds, d \in Payloads : get_tutorial(u, f, d)
    \/ \E u \in UserIds, f \in FeatureIds, d \in Payloads : automate_feature(u, f, d)
    \/ \E i \in InteractionIds, r \in Ratings, t \in FeedbackTexts : provide_feedback(i, r, t)

Spec == Init /\ [][Next]_vars

-----------------------------------------------------------------------------
(* Insights Aggregator: GET /insights/user/{user_id}, GET /insights/features *)

\* db.query(UserFeatureInteraction).filter(user_id == user.id).all()
user_interactions(u) ==
    {i \in 1 .. Len(interactions) : interactions[i].user_id = u}

\* len([i for i in interactions if i.discovery_status > 0])
discovered_features(u) ==
    Cardinality({i \in user_interactions(u) :
                    RLt(Zero, interactions[i].discovery_status)})

\* len([i for i in interactions if i.discovery_status >= 0.9])
fully_learned_features(u) ==
    Cardinality({i \in user_interactions(u) :
                    RLe(Rat(9, 10), interactions[i].discovery_status)})

\* mutant: the denominator one short
discovery_rate_Floored(count, total) ==
    Rat(count, IF total > 1 THEN total - 1 ELSE 1)

\* discovered_features / total_features if total_features > 0 else 0, and
\* len(interactions) / total_users if total_users > 0 else 0
discovery_rate(count, total) ==
    IF total > 0 THEN Rat(count, total) ELSE Zero

\* mutant: the loop runs over every row of the table
category_distribution_AllUsers(u) ==
    LET seen == {i \in 1 .. Len(interactions) :
                    FeatureExists(interactions[i].feature_id)}
        category(i) == features[interactions[i].feature_id].category
    IN [c \in {category(i) : i \in seen} |->
          Cardinality({i \in seen : category(i) = c})]

\* for interaction in interactions: feature = db.query(Feature)...first();
\* if feature: category_distribution[feature.category] += 1 (or = 1)
category_distribution(u) ==
    LET seen == {i \in user_interactions(u) :
                    FeatureExists(interactions[i].feature_id)}
        category(i) == features[interactions[i].feature_id].category
    IN [c \in {category(i) : i \in seen} |->
          Cardinality({i \in seen : category(i) = c})]

\* the counted part of a UserInsightsResponse; time_spent_hours and
\* efficiency, read off the clock, are left out
UserInsights(u) ==
    [discovery_score |-> users[u].feature_discovery_score,
     discovered_features |-> discovered_features(u),
     fully_learned_features |-> fully_learned_features(u),
     total_features |-> Len(features),
     discovery_rate |-> discovery_rate(discovered_features(u), Len(features)),
     category_distribution |-> category_distribution(u)]

\* mutant: the handler keeps a context snapshot of the request
get_user_insights_Logged(u) ==
    /\ now < MaxTime
    /\ now' = now + 1
    /\ IF ~UserExists(u)
         THEN /\ resp' = Resp("user_insights", 404, 0, Zero)
              /\ UNCHANGED contexts
       ELSE /\ resp' = [Resp("user_insights", 200, u, Zero) EXCEPT
                          !.body = UserInsights(u)]
            /\ contexts' = Append(contexts, NewContext(u, now'))
    /\ UNCHANGED <<users, features, interactions, sess, llm>>

get_user_insights(u) ==
    /\ now < MaxTime
    /\ now' = now + 1
    /\ IF ~UserExists(u)
         THEN resp' = Resp("user_insights", 404, 0, Zero)
       ELSE resp' = [Resp("user_insights", 200, u, Zero) EXCEPT
                       !.body = UserInsights(u)]
    /\ UNCHANGED <<dbvars, sess, llm>>

\* db.query(UserFeatureInteraction).filter(feature_id == feature.id).all()
feature_interactions(f) ==
    {i \in 1 .. Len(interactions) : interactions[i].feature_id = f}

\* len([i for i in interactions if i.automation_uses > 0]) / len(interactions)
\* if interactions else 0
automation_rate(f) ==
    LET rows == feature_interactions(f)
    IN IF rows # {}
         THEN Rat(Cardinality({i \in rows : interactions[i].automation_uses > 0}),
                  Cardinality(rows))
       ELSE Zero

\* the counted part of a FeatureInsight; total_users = db.query(User).count()
FeatureInsight(f) ==
    [feature_id |-> f,
     category |-> features[f].category,
     popularity |-> features[f].popularity,
     discovery_rate |-> discovery_rate(Cardinality(feature_interactions(f)),
                                       Len(users)),
     automation_rate |-> automation_rate(f)]

get_feature_insights ==
    /\ now < MaxTime
    /\ now' = now + 1
    /\ resp' = [Resp("feature_insights", 200, 0, Zero) EXCEPT
                  !.body = [feature_insights |->
                              [f \in 1 .. Len(features) |-> FeatureInsight(f)],
                            total_features |-> Len(features)]]
    /\ UNCHANGED <<dbvars, sess, llm>>

\* the handlers of Next and the two insight endpoints, one request at a time
NextInsights ==
    \/ Next
    \/ \E u \in UserIds : get_user_insights(u)
    \/ get_feature_insights

SpecInsights == Init /\ [][NextInsights]_vars

-----------------------------------------------------------------------------
(* The scorer's two events on a database scripts/seed_data.py has filled *)

\* the tables after seed_database() ran on the empty database
InitSeeded ==
    /\ users = [i \in 1 .. Len(SeedUsers) |->
                  NewUser(SeedUsers[i][1], SeedUsers[i][2])]
    /\ features = [i \in 1 .. Len(SeedFeatures) |->
                     NewFeature(SeedFeatures[i][1], SeedFeatures[i][2])]
    /\ interactions = <<>>
    /\ contexts = <<>>
    /\ now = 0
    /\ resp = NoResp
    /\ sess = [s \in Sessions |-> IdleSess]
    /\ llm = LlmIdle

NextScorer ==
    \/ \E u \in UserIds, f \in FeatureIds, d \in Payloads : get_tutorial(u, f, d)
    \/ \E u \in UserIds, f \in FeatureIds, d \in Payloads : automate_feature(u, f, d)

SpecScorer == InitSeeded /\ [][NextScorer]_vars

-----------------------------------------------------------------------------
(* ContextExtractor (services/scraper.py): extract and its steps, as       *)
(* functions of a parsed page and a URL.                                    *)

\* what a call hands back: a value, or the exception that left it
Ok(v) == [ok |-> TRUE, value |-> v, error |-> "none"]

Raise(e) == [ok |-> FALSE, value |-> "none", error |-> e]

\* an element of the parsed tree: tag name, class tokens, .text, attributes
\* and the elements directly inside it
El(name, class, text, attrs, children) ==
    [name |-> name, class |-> class, text |-> text, attrs |-> attrs,
     children |-> children]

NoAttrs == [a \in {} |-> ""]

Leaf(name, class, text, attrs) == El(name, class, text, attrs, <<>>)

\* tag.get(key, default)
get(tag, key, default) ==
    IF key \in DOMAIN tag.attrs THEN tag.attrs[key] ELSE default

\* the elements pages are put together from
Breadcrumb ==
    El("nav", {"breadcrumb"}, "Home Projects Task Board", NoAttrs,
       << Leaf("a", {}, "Home", "href" :> "/"),
          Leaf("a", {}, "Projects", "href" :> "/projects"),
          Leaf("a", {}, "Task Board", "href" :> "#") >>)

BareBreadcrumb == Leaf("div", {"breadcrumb-title"}, "Overview", NoAttrs)

ActiveItem == Leaf("li", {"active"}, " Reports ", NoAttrs)

CurrentSpan == Leaf("span", {"current"}, "Billing", NoAttrs)

Menu ==
    El("ul", {"nav-menu"}, "Projects Settings", NoAttrs,
       << Leaf("a", {"selected"}, "Projects", "href" :> "/projects"),
          Leaf("a", {}, "Settings", "href" :> "/settings") >>)

AlertBox == Leaf("div", {"alert"}, "Invalid password", NoAttrs)

InvalidField ==
    El("div", {}, "Required field", NoAttrs,
       << Leaf("input", {}, "", ("type" :> "text") @@ ("aria-invalid" :> "true")
                                  @@ ("aria-describedby" :> "err1")),
          Leaf("span", {}, "Required field", "id" :> "err1") >>)

PageTitle == Leaf("title", {}, "Kanban", NoAttrs)

Heading == Leaf("h1", {}, "Team Dashboard", NoAttrs)

Paragraph == Leaf("p", {}, "Welcome", NoAttrs)

LoginForm ==
    El("form", {}, "Email", NoAttrs,
       << Leaf("label", {}, "Email", "for" :> "email"),
          Leaf("input", {}, "", ("type" :> "text") @@ ("id" :> "email")
                                  @@ ("name" :> "email")),
          Leaf("input", {}, "", ("type" :> "hidden") @@ ("name" :> "csrf")) >>)

SaveButton == Leaf("button", {"btn"}, "Save", "type" :> "submit")

MetaTag == Leaf("meta", {}, "", ("name" :> "description")
                                  @@ ("content" :> "Project tracker"))

UserBadge == Leaf("span", {"user-name"}, "admin@example.com", NoAttrs)

Elements == {Breadcrumb, BareBreadcrumb, ActiveItem, CurrentSpan, Menu,
             AlertBox, InvalidField, PageTitle, Heading, Paragraph,
             LoginForm, SaveButton, MetaTag, UserBadge}

\* the most elements at the top level of a page
MaxElements == 2

Pages == UNION {[1 .. n -> Elements] : n \in 0 .. MaxElements}

\* html_snapshot, by what the parser makes of it: the empty string, markup
\* html.parser gives up on (bs4 raises ParserRejectedMarkup), or a page
Markups == {[kind |-> "empty", page |-> <<>>],
            [kind |-> "rejected", page |-> <<>>]}
           \cup {[kind |-> "page", page |-> p] : p \in Pages}

\* current_url with what urlparse makes of it: netloc and the path, the path
\* as its slashes and the segments between them; valid is FALSE where
\* urlparse raises ValueError
Url(text, valid, netloc, path) ==
    [text |-> text, valid |-> valid, netloc |-> netloc, path |-> path]

Urls == {Url("https://example.com/projects/task-board", TRUE, "example.com",
             <<"/", "projects", "/", "task-board">>),
         Url("https://app.example.com/user_settings//", TRUE, "app.example.com",
             <<"/", "user_settings", "/", "/">>),
         Url("https://example.com/", TRUE, "example.com", <<"/">>),
         Url("https://example.com", TRUE, "example.com", <<>>),
         Url("http://[::1/projects", FALSE, "", <<>>)}

\* BeautifulSoup(html_content, 'html.parser')
BeautifulSoup(html_content) ==
    IF html_content.kind = "rejected"
      THEN Raise("malformed start tag")
    ELSE Ok(html_content.page)

\* urlparse(url)
urlparse(url) ==
    IF url.valid THEN Ok([netloc |-> url.netloc, path |-> url.path])
    ELSE Raise("Invalid IPv6 URL")

\* str.strip() on the texts of Elements
strip(text) == IF text = " Reports " THEN "Reports" ELSE text

\* the words of the class patterns and of feature_keywords that occur in a
\* class token, as re.search(..., re.I) and `keyword in cls.lower()` find them
ClassWords ==
    ("breadcrumb" :> {"breadcrumb"}) @@ ("breadcrumb-title" :> {"breadcrumb"})
    @@ ("active" :> {"active"}) @@ ("current" :> {"current"})
    @@ ("selected" :> {"selected"}) @@ ("nav-menu" :> {"nav", "menu"})
    @@ ("alert" :> {"alert"}) @@ ("btn" :> {"btn"})
    @@ ("user-name" :> {"user"})

\* class_=re.compile(pattern, re.I) with pattern the alternation of words
class_matches(tag, words) ==
    \E c \in tag.class : ClassWords[c] \cap words # {}

\* every element of the tree in document order, each with its parent's
\* class tokens
RECURSIVE descendants(_)
descendants(soup) ==
    IF soup = <<>> THEN <<>>
    ELSE LET top == Head(soup)
         IN << [tag |-> top, parent |-> {}] >>
            \o [i \in 1 .. Len(top.children) |->
                  [tag |-> top.children[i], parent |-> top.class]]
            \o descendants(Tail(soup))

\* soup.find_all(names, class_=words): names = {} for any tag, words = {}
\* for any class
find_all(soup, names, words) ==
    LET all == descendants(soup)
        hits == SelectSeq(all, LAMBDA d :
                    /\ (names = {} \/ d.tag.name \in names)
                    /\ (words = {} \/ class_matches(d.tag, words)))
    IN [i \in 1 .. Len(hits) |-> hits[i].tag]

\* tag.find_all(names) on an element of the tree
children_named(tag, names) ==
    SelectSeq(tag.children, LAMBDA c : c.name \in names)

\* "if text and text not in seen: seen.append(text)" over a list of texts
RECURSIVE unique(_, _)
unique(texts, seen) ==
    IF texts = <<>> THEN seen
    ELSE LET text == Head(texts)
         IN unique(Tail(texts),
                   IF text # "" /\ \A k \in 1 .. Len(seen) : seen[k] # text
                     THEN Append(seen, text)
                   ELSE seen)

\* path.strip('/')
RECURSIVE strip_slashes(_)
strip_slashes(path) ==
    IF path = <<>> THEN <<>>
    ELSE IF Head(path) = "/" THEN strip_slashes(Tail(path))
    ELSE IF path[Len(path)] = "/" THEN strip_slashes(SubSeq(path, 1, Len(path) - 1))
    ELSE path

\* str.split('/'): the empty string splits into one empty part
RECURSIVE split(_)
split(path) ==
    IF path = <<>> THEN <<"">>
    ELSE IF Head(path) = "/" THEN <<"">> \o split(Tail(path))
    ELSE IF Len(path) = 1 THEN <<Head(path)>>
    ELSE <<Head(path)>> \o split(Tail(Tail(path)))

\* part.replace('-', ' ').replace('_', ' ').title() on the segments of Urls
humanize(part) ==
    CASE part = "task-board" -> "Task Board"
      [] part = "user_settings" -> "User Settings"
      [] part = "projects" -> "Projects"
      [] part = "" -> ""

\* self.feature_keywords
feature_keywords ==
    {"feature", "tool", "function", "capability", "module", "dashboard",
     "report", "analytics", "automation", "integration", "export", "import",
     "settings", "configuration", "customize", "workflow", "template",
     "notification", "alert", "monitor"}

\* any(keyword in text_lower for keyword in self.feature_keywords) on the
\* texts of Elements
has_keyword(text) ==
    text \in {"Reports", "Settings", "Projects Settings", "Team Dashboard"}

\* '@' in text
has_at(text) == text = "admin@example.com"

\* href in current_url, on the hrefs of Elements and the texts of Urls
occurs_in(href, text) ==
    \/ href = "/"
    \/ href = "/projects" /\ text \in {"https://example.com/projects/task-board",
                                      "http://[::1/projects"}

\* the last path part of the URL: urlparse(current_url).path.strip('/')
\* .split('/')
path_parts(parsed_url) == split(strip_slashes(parsed_url.path))

\* _extract_title, whole body inside try / except
_extract_title(soup, current_url) ==
    LET titles == find_all(soup, {"title"}, {})
        h1 == find_all(soup, {"h1"}, {})
        parsed_url == urlparse(current_url)
    IN IF titles # <<>> /\ titles[1].text # "" THEN strip(titles[1].text)
       ELSE IF h1 # <<>> /\ h1[1].text # "" THEN strip(h1[1].text)
       ELSE IF ~parsed_url.ok THEN "Unknown Page"
       ELSE LET parts == path_parts(parsed_url.value)
            IN IF parts # <<>> /\ parts[Len(parts)] # ""
                 THEN humanize(parts[Len(parts)])
               ELSE "Unknown Page"

\* _find_label_for_input for the k-th element inside the form
_find_label_for_input(form, k) ==
    LET input_tag == form.children[k]
        by_id == SelectSeq(form.children, LAMBDA c :
                     /\ c.name = "label"
                     /\ get(c, "for", "") = get(input_tag, "id", ""))
        before == {j \in 1 .. (k - 1) : form.children[j].name = "label"}
    IN IF get(input_tag, "id", "") # "" /\ by_id # <<>> THEN strip(by_id[1].text)
       ELSE IF form.name = "label" THEN strip(form.text)
       ELSE IF before # {}
         THEN strip(form.children[CHOOSE j \in before : \A i \in before : i <= j].text)
       ELSE ""

RECURSIVE concat(_)
concat(lists) ==
    IF lists = <<>> THEN <<>> ELSE Head(lists) \o concat(Tail(lists))

\* _extract_form_fields
_extract_form_fields(soup) ==
    LET forms == find_all(soup, {"form"}, {})
        fields(form) ==
            LET ks == SelectSeq([k \in 1 .. Len(form.children) |-> k], LAMBDA k :
                        LET t == form.children[k]
                        IN /\ t.name \in {"input", "select", "textarea"}
                           /\ ~(t.name = "input" /\ get(t, "type", "")
                                  \in {"hidden", "submit", "button"}))
            IN [n \in 1 .. Len(ks) |->
                  LET t == form.children[ks[n]]
                  IN [type |-> t.name, id |-> get(t, "id", ""),
                      name |-> get(t, "name", ""),
                      placeholder |-> get(t, "placeholder", ""),
                      label |-> _find_label_for_input(form, ks[n]),
                      value |-> IF t.name = "input" THEN get(t, "value", "")
                                ELSE strip(t.text)]]
    IN concat([n \in 1 .. Len(forms) |-> fields(forms[n])])

\* _is_active_link
_is_active_link(link, current_url) ==
    \/ link.class \cap {"active", "selected", "current"} # {}
    \/ LET href == get(link, "href", "")
       IN href # "" /\ href # "#" /\ occurs_in(href, current_url.text)
    \/ get(link, "aria-current", "") \in {"page", "true"}

\* _extract_navigation
_extract_navigation(soup, current_url) ==
    LET nav_elements == find_all(soup, {"nav", "ul", "div"}, {"nav", "menu", "sidebar"})
        items(nav) ==
            LET links == SelectSeq(children_named(nav, {"a"}),
                                   LAMBDA link : strip(link.text) # "")
            IN [n \in 1 .. Len(links) |->
                  [text |-> strip(links[n].text),
                   href |-> get(links[n], "href", ""),
                   active |-> _is_active_link(links[n], current_url),
                   has_icon |-> children_named(links[n], {"i", "svg", "img"}) # <<>>]]
    IN concat([n \in 1 .. Len(nav_elements) |-> items(nav_elements[n])])

\* _extract_headings
_extract_headings(soup) ==
    LET hs == find_all(soup, {"h1", "h2", "h3", "h4"}, {})
    IN unique([n \in 1 .. Len(hs) |-> strip(hs[n].text)], <<>>)

\* _extract_buttons
_extract_buttons(soup) ==
    LET text_of(b) == IF b.name = "input" THEN get(b, "value", "")
                      ELSE strip(b.text)
        button_elements ==
            SelectSeq(find_all(soup, {"button", "a", "input"}, {}), LAMBDA b :
                /\ ~(b.name = "a" /\ ~class_matches(b, {"btn"}))
                /\ ~(b.name = "input" /\ get(b, "type", "")
                       \notin {"button", "submit", "reset"})
                /\ text_of(b) # "")
    IN [n \in 1 .. Len(button_elements) |->
          LET b == button_elements[n]
          IN [text |-> text_of(b), id |-> get(b, "id", ""), class |-> b.class,
              disabled |-> "disabled" \in DOMAIN b.attrs \/ "disabled" \in b.class,
              type |-> IF b.name \in {"button", "input"} THEN get(b, "type", "")
                       ELSE "link"]]

\* _extract_potential_features; no text of Elements is longer than 100
_extract_potential_features(soup) ==
    LET keyworded(class) == \E c \in class : ClassWords[c] \cap feature_keywords # {}
        hits == SelectSeq(descendants(soup), LAMBDA d :
                    /\ d.tag.name \in {"p", "div", "span", "li", "a", "h3", "h4"}
                    /\ strip(d.tag.text) # ""
                    /\ \/ has_keyword(strip(d.tag.text))
                       \/ keyworded(d.tag.class)
                       \/ keyworded(d.parent))
    IN unique([n \in 1 .. Len(hits) |-> strip(hits[n].tag.text)], <<>>)

\* error_classes
error_classes == <<"error", "alert", "warning", "danger", "notification">>

\* _extract_error_messages
_extract_error_messages(soup) ==
    LET by_class(error_class) ==
            LET es == find_all(soup, {}, {error_class})
            IN [n \in 1 .. Len(es) |-> strip(es[n].text)]
        invalid == SelectSeq(find_all(soup, {}, {}), LAMBDA e :
                       get(e, "aria-invalid", "") = "true")
        described(e) ==
            LET error_id == IF get(e, "aria-errormessage", "") # ""
                              THEN get(e, "aria-errormessage", "")
                            ELSE get(e, "aria-describedby", "")
                found == SelectSeq(find_all(soup, {}, {}), LAMBDA t :
                             get(t, "id", "") = error_id)
            IN IF error_id # "" /\ found # <<>> THEN strip(found[1].text) ELSE ""
    IN unique(concat([n \in 1 .. Len(error_classes) |-> by_class(error_classes[n])])
              \o [n \in 1 .. Len(invalid) |-> described(invalid[n])], <<>>)

\* _determine_section, whole body inside try / except
_determine_section(soup, current_url) ==
    LET breadcrumbs == find_all(soup, {}, {"breadcrumb"})
        crumbs == IF breadcrumbs = <<>> THEN <<>>
                  ELSE LET links == children_named(breadcrumbs[1], {"a"})
                       IN [n \in 1 .. Len(links) |-> strip(links[n].text)]
        nav_items == find_all(soup, {"a", "li"}, {"active", "selected", "current"})
        parsed_url == urlparse(current_url)
    IN IF crumbs # <<>> THEN crumbs[Len(crumbs)]
       ELSE IF nav_items # <<>> THEN strip(nav_items[1].text)
       ELSE IF ~parsed_url.ok THEN "Unknown"
       ELSE LET parts == path_parts(parsed_url.value)
            IN IF parts # <<>> THEN humanize(parts[Len(parts)])
               ELSE "Unknown"

\* a dict filled key by key from a list of <<key, value>>, a later pair
\* replacing an earlier one with its key
RECURSIVE dict(_)
dict(pairs) ==
    IF pairs = <<>> THEN NoAttrs
    ELSE LET n == Len(pairs)
         IN (pairs[n][1] :> pairs[n][2]) @@ dict(SubSeq(pairs, 1, n - 1))

\* _extract_metadata
_extract_metadata(soup) ==
    LET name(meta) == IF get(meta, "name", "") # "" THEN get(meta, "name", "")
                      ELSE get(meta, "property", "")
        metas == SelectSeq(find_all(soup, {"meta"}, {}), LAMBDA meta :
                     name(meta) # "" /\ get(meta, "content", "") # "")
    IN dict([n \in 1 .. Len(metas) |-> <<name(metas[n]), get(metas[n], "content", "")>>])

\* _extract_user_info
_extract_user_info(soup) ==
    LET user_elements ==
            SelectSeq(find_all(soup, {}, {"user", "profile", "account"}),
                      LAMBDA element : strip(element.text) # "")
    IN dict([n \in 1 .. Len(user_elements) |->
               LET text == strip(user_elements[n].text)
               IN <<IF has_at(text) THEN "email" ELSE "name", text>>])

\* mutant: the try / except around urlparse taken away
_extract_domain_Unguarded(url) ==
    LET parsed_url == urlparse(url)
    IN IF parsed_url.ok THEN Ok(parsed_url.value.netloc) ELSE parsed_url

\* _extract_domain: return parsed_url.netloc; except Exception: return ""
_extract_domain(url) ==
    LET parsed_url == urlparse(url)
    IN IF parsed_url.ok THEN Ok(parsed_url.value.netloc) ELSE Ok("")

\* f"Context extraction failed: {error_message}"
diagnostic(error_message) ==
    CASE error_message = "Empty HTML content provided"
           -> "Context extraction failed: Empty HTML content provided"
      [] error_message = "malformed start tag"
           -> "Context extraction failed: malformed start tag"

\* mutant: the failure is reported without a diagnostic entry
_create_minimal_context_Silent(current_url, error_message) ==
    LET domain == _extract_domain(current_url)
    IN IF ~domain.ok THEN domain
       ELSE Ok([title |-> "Error extracting context", url |-> current_url.text,
                current_section |-> "Unknown", form_fields |-> <<>>,
                nav_items |-> <<>>, headings |-> <<>>, buttons |-> <<>>,
                potential_features |-> <<>>, error_messages |-> <<>>,
                metadata |-> NoAttrs, user_info |-> NoAttrs,
                domain |-> domain.value])

\* _create_minimal_context; nothing in it catches what _extract_domain
\* lets through
_create_minimal_context(current_url, error_message) ==
    LET domain == _extract_domain(current_url)
    IN IF ~domain.ok THEN domain
       ELSE Ok([title |-> "Error extracting context", url |-> current_url.text,
                current_section |-> "Unknown", form_fields |-> <<>>,
                nav_items |-> <<>>, headings |-> <<>>, buttons |-> <<>>,
                potential_features |-> <<>>,
                error_messages |-> <<diagnostic(error_message)>>,
                metadata |-> NoAttrs, user_info |-> NoAttrs,
                domain |-> domain.value])

\* ContextExtractor.extract
extract(html_content, current_url) ==
    IF html_content.kind = "empty"
      THEN _create_minimal_context(current_url, "Empty HTML content provided")
    ELSE LET soup == BeautifulSoup(html_content)
             domain == _extract_domain(current_url)
         IN IF ~soup.ok
              THEN _create_minimal_context(current_url, soup.error)
            ELSE IF ~domain.ok
              THEN _create_minimal_context(current_url, domain.error)
            ELSE Ok([title |-> _extract_title(soup.value, current_url),
                     url |-> current_url.text,
                     current_section |-> _determine_section(soup.value, current_url),
                     form_fields |-> _extract_form_fields(soup.value),
                     nav_items |-> _extract_navigation(soup.value, current_url),
                     headings |-> _extract_headings(soup.value),
                     buttons |-> _extract_buttons(soup.value),
                     potential_features |-> _extract_potential_features(soup.value),
                     error_messages |-> _extract_error_messages(soup.value),
                     metadata |-> _extract_metadata(soup.value),
                     user_info |-> _extract_user_info(soup.value),
                     domain |-> domain.value])

(* main.py line 229: the handler of POST /context hands the request's *)
(* html_snapshot and current_url to the extractor                     *)

\* a ContextRequest has arrived at an idle server
InitExtract ==
    /\ users = <<>>
    /\ features = <<>>
    /\ interactions = <<>>
    /\ contexts = <<>>
    /\ now = 0
    /\ resp = NoResp
    /\ llm = LlmIdle
    /\ \E html_snapshot \in Markups, current_url \in Urls :
          sess = [s \in Sessions |->
                    IF s = Worker
                      THEN [IdleSess EXCEPT
                              !.pc = "received", !.op = "context",
                              !.data = [html_snapshot |-> html_snapshot,
                                        current_url |-> current_url]]
                    ELSE IdleSess]

\* context_data = context_extractor.extract(request.html_snapshot,
\*                                          request.current_url)
extract_context(s) ==
    /\ sess[s].pc = "received"
    /\ LET request == sess[s].data
       IN sess' = [sess EXCEPT
                     ![s].pc = "extracted",
                     ![s].data = [request |-> request,
                                  context_data |-> extract(request.html_snapshot,
                                                           request.current_url)]]
    /\ UNCHANGED <<dbvars, now, resp, llm>>

NextExtract == extract_context(Worker)

SpecExtract == InitExtract /\ [][NextExtract]_vars

-----------------------------------------------------------------------------
(* Properties *)

Rows == 1 .. Len(interactions)

\* the step just taken served request `op` with a 200
Served(op) == resp'.op = op /\ resp'.status = 200

\* the rows of the pair (u, f), read off the table
PairRows(u, f) ==
    {i \in Rows : interactions[i].user_id = u /\ interactions[i].feature_id = f}

\* C1: starting from 0.0, after any sequence of tutorial-view and
\* automation-use events every feature's popularity is within [0, 1].
C1_PopularityInUnit ==
    \A f \in 1 .. Len(features) : InUnit(features[f].popularity)

\* a feature that both kinds of event have touched: 1 - 0.9 * 0.8 = 0.28
C1_Witness ==
    \E f \in 1 .. Len(features) : features[f].popularity = Rat(28, 100)

\* C2: from one state to the next no interaction's discovery_status
\* decreases, and it never exceeds 1.0.
C2_StatusMonotone ==
    [][/\ \A i \in Rows :
            RLe(interactions[i].discovery_status, interactions'[i].discovery_status)
       /\ \A i \in 1 .. Len(interactions') :
            RLe(interactions'[i].discovery_status, One)]_vars

\* three automation uses: 0.5, 0.8, then 1.1 clamped to 1.0
C2_Witness ==
    \E i \in Rows : /\ interactions[i].discovery_status = One
                    /\ interactions[i].automation_uses = 3

\* the mean rating over all rated rows of user u in the next state
MeanRatingAfter(u) ==
    LET R == {j \in 1 .. Len(interactions') :
                 interactions'[j].user_id = u /\ interactions'[j].rating # None}
    IN Rat(SumOver(R, [j \in R |-> interactions'[j].rating]), Cardinality(R))

\* C3: feedback on an interaction of user u makes u's discovery_score
\* 0.7 * old + 0.3 * m, m the mean rating over all of u's rated interactions
\* including the one just rated.
C3_ScoreBlend ==
    [][Served("feedback") =>
         LET u == interactions[resp'.id].user_id
         IN users'[u].feature_discovery_score =
              RAdd(RMul(users[u].feature_discovery_score, Rat(7, 10)),
                   RMul(MeanRatingAfter(u), Rat(3, 10)))]_vars

\* C4, as claimed: every user's discovery_score stays within [0, 1].
C4_ScoreInUnit ==
    \A u \in 1 .. Len(users) : InUnit(users[u].feature_discovery_score)

\* C4, amended: every user's discovery_score stays within [0, 5], the
\* range the ratings blended into it can reach.
C4_ScoreInRatingRange ==
    \A u \in 1 .. Len(users) :
        /\ RLe(Zero, users[u].feature_discovery_score)
        /\ RLe(users[u].feature_discovery_score, Rat(5, 1))

\* a score above 1 after feedback
C4_Witness ==
    /\ resp.op = "feedback" /\ resp.status = 200
    /\ \E u \in 1 .. Len(users) : RLt(One, users[u].feature_discovery_score)

\* C5: a tutorial view adds 1 to tutorial_views and sets discovery_status
\* to min(old + 0.2, 1.0) on the pair's row if there is one, creates the row
\* with tutorial_views 1, automation_uses 0, discovery_status 0.3 if there is
\* none; the feature's popularity becomes 0.9 * p + 0.1.
C5_TutorialEvent ==
    [][Served("tutorial") =>
         LET i == resp'.id
             new == interactions'[i]
             f == new.feature_id
         IN /\ IF PairRows(new.user_id, f) # {}
                 THEN /\ i \in PairRows(new.user_id, f)
                      /\ Len(interactions') = Len(interactions)
                      /\ new.tutorial_views = interactions[i].tutorial_views + 1
                      /\ new.automation_uses = interactions[i].automation_uses
                      /\ new.discovery_status =
                           RMin(RAdd(interactions[i].discovery_status, Rat(1, 5)), One)
               ELSE /\ i = Len(interactions) + 1
                    /\ Len(interactions') = i
                    /\ new.tutorial_views = 1
                    /\ new.automation_uses = 0
                    /\ new.discovery_status = Rat(3, 10)
            /\ features'[f].popularity =
                 RAdd(RMul(features[f].popularity, Rat(9, 10)), Rat(1, 10))]_vars

\* a tutorial view that found the pair's row and clamped its status at 1.0
C5_Witness ==
    /\ resp.op = "tutorial" /\ resp.status = 200
    /\ interactions[resp.id].tutorial_views >= 2
    /\ interactions[resp.id].automation_uses >= 1
    /\ interactions[resp.id].discovery_status = One

\* C6: an automation use adds 1 to automation_uses and sets discovery_status
\* to min(old + 0.3, 1.0) on the pair's row if there is one, creates the row
\* with automation_uses 1, tutorial_views 0, discovery_status 0.5 if there is
\* none; the feature's popularity becomes 0.8 * p + 0.2, more than a tutorial
\* view would have made it whenever p < 1.
C6_AutomationEvent ==
    [][Served("automate") =>
         LET i == resp'.id
             new == interactions'[i]
             f == new.feature_id
             p == features[f].popularity
         IN /\ IF PairRows(new.user_id, f) # {}
                 THEN /\ i \in PairRows(new.user_id, f)
                      /\ Len(interactions') = Len(interactions)
                      /\ new.automation_uses = interactions[i].automation_uses + 1
                      /\ new.tutorial_views = interactions[i].tutorial_views
                      /\ new.discovery_status =
                           RMin(RAdd(interactions[i].discovery_status, Rat(3, 10)), One)
               ELSE /\ i = Len(interactions) + 1
                    /\ Len(interactions') = i
                    /\ new.automation_uses = 1
                    /\ new.tutorial_views = 0
                    /\ new.discovery_status = Rat(1, 2)
            /\ features'[f].popularity = RAdd(RMul(p, Rat(4, 5)), Rat(1, 5))
            /\ RLt(p, One) => RLt(TutorialPopularity(p), features'[f].popularity)]_vars

\* an automation use on a row a tutorial view had created
C6_Witness ==
    /\ resp.op = "automate" /\ resp.status = 200
    /\ interactions[resp.id].tutorial_views >= 1
    /\ interactions[resp.id].automation_uses >= 2

\* C7: every successful event on an interaction - tutorial viewed,
\* automation used, feedback submitted - sets its last_interaction to the
\* current time.
C7_LastInteractionIsNow ==
    [][(Served("tutorial") \/ Served("automate") \/ Served("feedback")) =>
         interactions'[resp'.id].last_interaction = now']_vars

\* C8: served one at a time, tutorial and automation requests leave at most
\* one row per (user, feature) pair: the first creates it and every later
\* one updates that same row.
C8_OneRowPerPair ==
    [][/\ \A i, j \in 1 .. Len(interactions') :
            (/\ interactions'[i].user_id = interactions'[j].user_id
             /\ interactions'[i].feature_id = interactions'[j].feature_id) => i = j
       /\ (Served("tutorial") \/ Served("automate")) =>
            LET new == interactions'[resp'.id]
                old == PairRows(new.user_id, new.feature_id)
            IN IF old = {} THEN Len(interactions') = Len(interactions) + 1
               ELSE Len(interactions') = Len(interactions) /\ resp'.id \in old]_vars

\* a pair's row after a tutorial view and an automation use, with another
\* pair's row beside it
C8_Witness ==
    /\ Len(interactions) >= 2
    /\ \E i \in Rows : /\ interactions[i].tutorial_views >= 1
                       /\ interactions[i].automation_uses >= 1

\* C9: when requests for the same pair interleave, the pair still has at
\* most one row and discovery_status and popularity stay within [0, 1].
C9_InterleavedSafe ==
    /\ \A i, j \in Rows :
          (/\ interactions[i].user_id = interactions[j].user_id
           /\ interactions[i].feature_id = interactions[j].feature_id) => i = j
    /\ \A i \in Rows : InUnit(interactions[i].discovery_status)
    /\ \A f \in 1 .. Len(features) : InUnit(features[f].popularity)

FailedPrimaries == {k \in Calls("primary") : llm.calls[k][2] # "dict"}

FailedDirects == {k \in Calls("direct") : llm.calls[k][2] \notin {"dict", "nondict"}}

\* C10: the direct call is issued only after all primary attempts failed
\* and at most once; the last-resort answer is returned only after the
\* direct call failed too; the operation ends by returning a result.
C10_FallbackChain ==
    /\ [](/\ Cardinality(Calls("direct")) <= 1
          /\ \A k \in Calls("direct") :
                /\ Calls("primary") = 1 .. (k - 1)
                /\ FailedPrimaries = Calls("primary")
                /\ Cardinality(FailedPrimaries) = max_retries
          /\ llm.result = "lastresort" => FailedDirects # {}
          /\ llm.pc = "returned" => llm.result \in {"empty", "primary", "direct", "lastresort"})
    /\ (llm.pc \in {"primary", "backoff", "fallback"}) ~> (llm.pc = "returned")

\* the last-resort answer of a tutorial generation
C10_Witness ==
    /\ llm.pc = "returned" /\ llm.op = "tutorial" /\ llm.result = "lastresort"

\* C11: when every primary attempt fails, the direct call comes after the
\* initial attempt and 3 retries (4 primary attempts), with one backoff
\* sleep before each retry.
C11_ThreeRetries ==
    \A k \in Calls("direct") :
        /\ Cardinality(Calls("primary")) = max_retries + 1
        /\ llm.sleeps = max_retries

\* C13: every request to the external model, primary or direct, leaves at
\* least the minimum interval after the request before it.
C13_RequestsSpaced ==
    \A k \in 1 .. Len(llm.calls) : llm.calls[k][3] >= min_request_interval

\* every feature has an interaction of user u with a positive status
NothingLeft(u) ==
    \A f \in 1 .. Len(features) :
        \E i \in Rows : /\ interactions[i].user_id = u
                        /\ interactions[i].feature_id = f
                        /\ RLt(Zero, interactions[i].discovery_status)

C14_FailureLeavesNoTrace ==
    [][(resp' # resp /\ resp'.status >= 400) =>
          /\ dbvars' = dbvars
          /\ resp'.op = "analyze" => sess[Worker].iid \notin 1 .. Len(contexts')]_vars

\* C15: whichever way the model fails, on the primary attempts and on the
\* direct call, a tutorial or automation request is not failed by it: the
\* handler goes on to record the event, once, and answers 200.
C15_ModelFailureNotFatal ==
    [][/\ (/\ sess[Worker].op \in {"tutorial", "automate"}
           /\ sess[Worker].pc = "loaded" /\ sess[Worker].data # NoData
           /\ sess'[Worker].pc # "loaded") => sess'[Worker].pc = "dirty"
       /\ (sess[Worker].pc = "dirty" /\ sess'[Worker].pc = "idle") =>
            /\ resp'.status = 200
            /\ Len(interactions') <= Len(interactions) + 1
            /\ LET new == interactions'[resp'.id]
                   old == IF resp'.id \in Rows THEN interactions[resp'.id]
                          ELSE [tutorial_views |-> 0, automation_uses |-> 0]
               IN new.tutorial_views + new.automation_uses =
                    old.tutorial_views + old.automation_uses + 1]_vars

\* C16: a payload of the model that lacks top-level keys, on the primary
\* path or on the direct fallback path, is answered with the default in the
\* place of each missing key; the request does not fail.
C16_MissingKeysDefaulted ==
    [][\A reply \in Replies :
         (/\ convert_recommendations(Worker, reply)
          /\ sess[Worker].data.result \in {"primary", "direct"}
          /\ ~Rejected(reply.recommended_features)) =>
            /\ resp'.status = 200
            /\ "recommended_features" \notin reply.keys =>
                 resp'.body.recommendations = <<>>
            /\ "explanation" \notin reply.keys =>
                 resp'.body.explanation \in
                    {"Features recommended based on your context.",
                     "Features recommended based on your context"}
            /\ "automation_possible" \notin reply.keys =>
                 resp'.body.can_automate = FALSE]_vars

\* C17: of the items of a recommendation payload, those lacking a required
\* field are dropped and those with all four are kept in their order; the
\* request does not fail over an item.
C17_InvalidItemsDropped ==
    [][\A reply \in Replies :
         (/\ convert_recommendations(Worker, reply)
          /\ sess[Worker].data.result \in {"primary", "direct"}
          /\ sess[Worker].data.shape = "dict"
          /\ "recommended_features" \in reply.keys) =>
            LET items == reply.recommended_features
                full == {k \in 1 .. Len(items) : items[k].has = RequiredFields}
                kept == resp'.body.recommendations
            IN /\ resp'.status = 200
               /\ {kept[k] : k \in 1 .. Len(kept)} = full
               /\ \A j, k \in 1 .. Len(kept) : j < k => kept[j] < kept[k]]_vars

\* C18: feedback on an interaction id that does not exist is answered 404
\* and changes no rating, no feedback text and no discovery_score; feedback
\* is only ever recorded on an existing interaction.
C18_UnknownInteractionRejected ==
    [][/\ \A i \in InteractionIds, r \in Ratings, t \in FeedbackTexts :
            (provide_feedback(i, r, t) /\ i \notin Rows) =>
               /\ resp'.op = "feedback" /\ resp'.status = 404
               /\ interactions' = interactions
               /\ users' = users
       /\ Served("feedback") => resp'.id \in Rows]_vars

\* feedback on an unknown id, after feedback on a known one was recorded
C18_Witness ==
    /\ resp.op = "feedback" /\ resp.status = 404
    /\ \E i \in Rows : interactions[i].rating # None

\* C19: a tutorial, automation or context-analysis request naming a user
\* that does not exist, or a tutorial / automation request naming a feature
\* that does not exist, is answered 404; no service operation is started, no
\* request goes to the external model, the request is over, and the tables
\* are unchanged.
C19_NotFoundIsInert ==
    [][LET inert == /\ resp'.status = 404
                    /\ dbvars' = dbvars
                    /\ llm' = llm /\ llm.pc = "idle" /\ llm.calls = <<>>
                    /\ sess'[Worker].pc = "idle"
       IN /\ \A u \in UserIds :
               (analyze_context(Worker, u) /\ u \notin 1 .. Len(users)) => inert
          /\ \A op \in {"tutorial", "automate"}, u \in UserIds, f \in FeatureIds :
               (/\ begin_request(Worker, op, u, f)
                /\ (u \notin 1 .. Len(users) \/ f \notin 1 .. Len(features))) => inert]_vars

\* a tutorial request for an unknown user or feature, with rows in every
\* table that it could have touched
C19_Witness ==
    /\ resp.op = "tutorial" /\ resp.status = 404
    /\ Len(interactions) > 0 /\ Len(contexts) > 0

\* C20: no two users share an email or a username and no two features
\* share a name; a create request for a taken email, username or name is
\* answered 400 and leaves users and features unchanged.
C20_UniqueIdentities ==
    [][/\ \A i, j \in 1 .. Len(users') :
            (users'[i].email = users'[j].email
               \/ users'[i].username = users'[j].username) => i = j
       /\ \A i, j \in 1 .. Len(features') :
            features'[i].name = features'[j].name => i = j
       /\ \A b \in UserInputs :
            (/\ create_user(b[1], b[2])
             /\ \E i \in 1 .. Len(users) :
                   users[i].email = b[2] \/ users[i].username = b[1]) =>
               resp'.status = 400 /\ users' = users /\ features' = features
       /\ \A b \in FeatureInputs :
            (/\ create_feature(b[1], b[2])
             /\ \E i \in 1 .. Len(features) : features[i].name = b[1]) =>
               resp'.status = 400 /\ users' = users /\ features' = features]_vars

\* a create-user request turned down, with two users and a feature stored
C20_Witness ==
    /\ resp.op = "create_user" /\ resp.status = 400
    /\ Len(users) = 2 /\ Len(features) >= 1

\* C27: every interaction row has discovery_status within [0.3, 1.0],
\* tutorial_views >= 0, automation_uses >= 0 and at least one event counted,
\* so every row counts as discovered (discovery_status > 0).
C27_RowsAreDiscovered ==
    \A i \in Rows :
        /\ RLe(Rat(3, 10), interactions[i].discovery_status)
        /\ RLe(interactions[i].discovery_status, One)
        /\ interactions[i].tutorial_views >= 0
        /\ interactions[i].automation_uses >= 0
        /\ interactions[i].tutorial_views + interactions[i].automation_uses >= 1
        /\ RLt(Zero, interactions[i].discovery_status)

\* a row at the lower end, one tutorial view old, beside a row at the upper
\* end that only automation uses have touched
C27_Witness ==
    \E i, j \in Rows :
        /\ interactions[i].discovery_status = Rat(3, 10)
        /\ interactions[i].tutorial_views = 1 /\ interactions[i].automation_uses = 0
        /\ interactions[j].discovery_status = One
        /\ interactions[j].tutorial_views = 0

\* C29: a feedback submission leaves every row's discovery_status,
\* tutorial_views and automation_uses, every feature's popularity and every
\* other user's discovery_score as they were; a tutorial view or automation
\* use leaves every user's discovery_score, every row's rating and feedback
\* text, every other pair's row and every other feature's popularity as they
\* were.
C29_ScorerFrame ==
    [][/\ Served("feedback") =>
            LET owner == interactions[resp'.id].user_id
            IN /\ Len(interactions') = Len(interactions)
               /\ \A i \in Rows :
                    /\ interactions'[i].discovery_status = interactions[i].discovery_status
                    /\ interactions'[i].tutorial_views = interactions[i].tutorial_views
                    /\ interactions'[i].automation_uses = interactions[i].automation_uses
               /\ features' = features
               /\ Len(users') = Len(users)
               /\ \A u \in 1 .. Len(users) :
                    u # owner => users'[u] = users[u]
       /\ (Served("tutorial") \/ Served("automate")) =>
            LET new == interactions'[resp'.id]
            IN /\ users' = users
               /\ \A i \in Rows :
                    /\ interactions'[i].rating = interactions[i].rating
                    /\ interactions'[i].feedback = interactions[i].feedback
                    /\ (interactions[i].user_id # new.user_id
                          \/ interactions[i].feature_id # new.feature_id)
                         => interactions'[i] = interactions[i]
               /\ Len(features') = Len(features)
               /\ \A f \in 1 .. Len(features) :
                    f # new.feature_id => features'[f] = features[f]]_vars

\* a tutorial view on a second pair of a user whose first pair is rated and
\* whose score feedback has already moved
C29_Witness ==
    /\ resp.op = "tutorial" /\ resp.status = 200
    /\ \E i \in Rows :
         /\ i # resp.id
         /\ interactions[i].rating # None
         /\ interactions[i].user_id = interactions[resp.id].user_id
         /\ users[interactions[i].user_id].feature_discovery_score # Zero

\* C28: a pair's row that has counted five tutorial views and automation
\* uses, in any mix and order, has discovery_status exactly 1.0, and a row at
\* 1.0 is still at 1.0 after every later step.
C28_FiveEventsComplete ==
    [][/\ \A i \in 1 .. Len(interactions') :
            interactions'[i].tutorial_views + interactions'[i].automation_uses >= 5
              => interactions'[i].discovery_status = One
       /\ \A i \in Rows :
            interactions[i].discovery_status = One
              => interactions'[i].discovery_status = One]_vars

\* the slowest way up: five tutorial views, 0.3, 0.5, 0.7, 0.9 and the fifth
\* clamped from 1.1 to 1.0
C28_Witness ==
    /\ resp.op = "tutorial" /\ resp.status = 200
    /\ interactions[resp.id].tutorial_views = 5
    /\ interactions[resp.id].automation_uses = 0
    /\ interactions[resp.id].discovery_status = One

\* C26: the sleep before the k-th retry of the primary call is
\* min(1s * 2^(k-1) + j, 60s) with j within [0, 1s]: between 1 and 2 seconds
\* before the first retry, the base doubling with each further one, and never
\* more than 60 seconds.
C26_BackoffDelay ==
    [][(llm.pc = "backoff" /\ llm'.pc = "primary") =>
         LET k == llm'.sleeps
         IN /\ \E j \in 0 .. MaxJitter :
                 llm'.delay = IF base_delay * (2 ^ (k - 1)) + j < max_delay
                                THEN base_delay * (2 ^ (k - 1)) + j
                              ELSE max_delay
            /\ llm'.delay <= max_delay]_vars

\* the step just taken answered an insight request
Insight(op) == resp.op = op /\ resp.status = 200

\* C21: the category distribution answered for a user counts exactly the
\* user's discovered rows (discovery_status > 0) by the category of their
\* feature, and its counts add up to the discovered-feature count answered
\* with it.
C21_CategoryDistribution ==
    Insight("user_insights") =>
        LET dist == resp.body.category_distribution
            disc(c) == {i \in Rows :
                          /\ interactions[i].user_id = resp.id
                          /\ RLt(Zero, interactions[i].discovery_status)
                          /\ features[interactions[i].feature_id].category = c}
            cats == {features[f].category : f \in 1 .. Len(features)}
        IN /\ DOMAIN dist = {c \in cats : disc(c) # {}}
           /\ \A c \in DOMAIN dist : dist[c] = Cardinality(disc(c))
           /\ SumOver(DOMAIN dist, dist) = resp.body.discovered_features

\* a user with rows in two categories, asked about while another user has a
\* row too
C21_Witness ==
    /\ Insight("user_insights")
    /\ Cardinality(DOMAIN resp.body.category_distribution) = 2
    /\ \E i \in Rows : interactions[i].user_id # resp.id

\* C22: the per-user and the per-feature insight requests leave every user,
\* feature, interaction and context snapshot as it was.
C22_InsightsReadOnly ==
    [][resp'.op \in {"user_insights", "feature_insights"} =>
         /\ users' = users
         /\ features' = features
         /\ interactions' = interactions
         /\ contexts' = contexts]_vars

\* insights answered for a user who has interaction rows and a rating
C22_Witness ==
    /\ Insight("user_insights")
    /\ resp.body.discovered_features >= 1
    /\ \E i \in Rows : interactions[i].user_id = resp.id
                       /\ interactions[i].rating # None

\* C30: with requests served one at a time, the per-user discovery rate
\* (discovered rows / features) and every per-feature discovery rate (rows
\* of the feature / users) answered lie within [0, 1], and a rate is 0 when
\* its denominator is 0.
C30_RatesInUnit ==
    /\ Insight("user_insights") =>
         /\ InUnit(resp.body.discovery_rate)
         /\ Len(features) = 0 => resp.body.discovery_rate = Zero
    /\ Insight("feature_insights") =>
         \A f \in 1 .. Len(resp.body.feature_insights) :
            /\ InUnit(resp.body.feature_insights[f].discovery_rate)
            /\ Len(users) = 0 =>
                 resp.body.feature_insights[f].discovery_rate = Zero

\* one feature every user has a row for, another only half of them
C30_Witness ==
    /\ Insight("feature_insights")
    /\ \E f, g \in 1 .. Len(resp.body.feature_insights) :
          /\ resp.body.feature_insights[f].discovery_rate = One
          /\ resp.body.feature_insights[g].discovery_rate = Rat(1, 2)

\* the request the worker was handed and what extract returned for it
Extracted == sess[Worker].pc = "extracted"

Request == sess[Worker].data.request

Returned == sess[Worker].data.context_data

\* C23: extract never raises, whatever the markup and the URL; for empty
\* markup, or when parsing fails, it returns the minimal context: title
\* "Error extracting context", current_section "Unknown", every collection
\* empty except error_messages, which holds exactly one diagnostic entry, and
\* the domain taken from the URL alone.
C23_MinimalContext ==
    Extracted =>
        /\ Returned.ok
        /\ Request.html_snapshot.kind \in {"empty", "rejected"} =>
             LET c == Returned.value
             IN /\ c.title = "Error extracting context"
                /\ c.current_section = "Unknown"
                /\ c.form_fields = <<>> /\ c.nav_items = <<>>
                /\ c.headings = <<>> /\ c.buttons = <<>>
                /\ c.potential_features = <<>>
                /\ DOMAIN c.metadata = {} /\ DOMAIN c.user_info = {}
                /\ Len(c.error_messages) = 1
                /\ c.error_messages[1] \in
                     {"Context extraction failed: Empty HTML content provided",
                      "Context extraction failed: malformed start tag"}
                /\ c.url = Request.current_url.text
                /\ c.domain = IF Request.current_url.valid
                                THEN Request.current_url.netloc
                              ELSE ""

\* markup the parser gives up on, with a URL urlparse cannot take apart
C23_Witness ==
    /\ Extracted
    /\ Request.html_snapshot.kind = "rejected"
    /\ ~Request.current_url.valid
    /\ Returned.ok /\ Returned.value.domain = ""

\* the top-level elements of the requested page
OnPage == {Request.html_snapshot.page[k] :
             k \in 1 .. Len(Request.html_snapshot.page)}

\* C24, as claimed: on markup that extract processes without internal error
\* the returned error_messages is empty; it is non-empty only when the
\* markup was malformed and extraction failed.
C24_ErrorsOnlyOnFailure ==
    (Extracted /\ Returned.ok) =>
        (Request.html_snapshot.kind = "page"
           <=> Returned.value.error_messages = <<>>)

\* C24, amended: on a page that parses, error_messages holds each distinct
\* text of the page's error-class elements and of the messages its
\* aria-invalid fields refer to, once, and is empty when the page has none;
\* on empty or rejected markup it holds the one diagnostic entry.
C24_ErrorsOfThePage ==
    (Extracted /\ Returned.ok) =>
        LET errors == Returned.value.error_messages
            listed == {errors[k] : k \in 1 .. Len(errors)}
        IN IF Request.html_snapshot.kind = "page"
             THEN /\ listed = {"Invalid password" : e \in OnPage \cap {AlertBox}}
                                \cup {"Required field" : e \in OnPage \cap {InvalidField}}
                  /\ Cardinality(listed) = Len(errors)
           ELSE /\ Len(errors) = 1
                /\ errors[1] \in
                     {"Context extraction failed: Empty HTML content provided",
                      "Context extraction failed: malformed start tag"}

\* a page that parses and shows a login error
C24_Witness ==
    /\ Extracted /\ Returned.ok
    /\ Request.html_snapshot.kind = "page"
    /\ Returned.value.error_messages = <<"Invalid password">>
    /\ Returned.value.title # "Error extracting context"

\* C25: current_section is the text of the last breadcrumb link if a
\* breadcrumb container with links exists; else the text of the first
\* element carrying an active / selected / current class; else the humanized
\* last non-empty segment of the URL path; else "Unknown".
C25_SectionPriority ==
    (Extracted /\ Returned.ok /\ Request.html_snapshot.kind = "page") =>
        LET page == Request.html_snapshot.page
            url == Request.current_url
            containers == SelectSeq(find_all(page, {}, {"breadcrumb"}),
                                    LAMBDA c : children_named(c, {"a"}) # <<>>)
            actives == find_all(page, {}, {"active", "selected", "current"})
            segments == SelectSeq(url.path, LAMBDA t : t # "/")
        IN Returned.value.current_section =
             IF containers # <<>>
               THEN LET links == children_named(containers[1], {"a"})
                    IN strip(links[Len(links)].text)
             ELSE IF actives # <<>> THEN strip(actives[1].text)
             ELSE IF url.valid /\ segments # <<>>
               THEN humanize(segments[Len(segments)])
             ELSE "Unknown"

====
